---- MODULE Spec2Model ----
(***************************************************************************)
(* Model of src/app.py, a Streamlit script for manual backtesting.         *)
(*                                                                         *)
(* Streamlit runs the whole script from the top on every widget event.     *)
(* A run that is inside the price walk sleeps five seconds per bar         *)
(* (line 93); an event that arrives while a run is in progress stops that  *)
(* run at its next st.* call and starts a new run with the event's widget  *)
(* state.  The model therefore cuts a run at the places where time passes: *)
(*   pc = "sleep"  the run is in time.sleep(5) of loop iteration shown-1,  *)
(*   pc = "plot"   the run has appended the record (line 119) and is in    *)
(*                 the st.write / st.pyplot calls of lines 129-142,        *)
(*   pc = "done"   the run has ended; the page waits for the next event.   *)
(*                                                                         *)
(* Units.  Prices are integers (ticks).  The sliders hold tenths of a      *)
(* percent, so TP_PCT and SL_PCT are numerators over PCT_SCALE = 1000.     *)
(* Threshold and exit prices are kept multiplied by PCT_SCALE, which makes *)
(* entry * (1 + TP_PCT) an integer.  PnL is kept in cents, as              *)
(* round(pnl, 2) leaves it.  Timestamps are minutes after midnight.        *)
(***************************************************************************)
EXTENDS Integers, Sequences, FiniteSets, TLC

VARIABLES
    trade_data,   \* st.session_state.trade_data: the list of trade records
    dates,        \* st.session_state.dates
    current_day,  \* st.session_state.current_day
    running,      \* st.session_state.running
    entered,      \* st.session_state.entered
    ticker,       \* st.session_state.ticker
    entry_price,  \* st.session_state.entry_price
    entry_time,   \* st.session_state.entry_time
    data,         \* st.session_state.data
    TP_PCT,       \* take-profit slider, in 1/PCT_SCALE
    SL_PCT,       \* stop-loss slider, in 1/PCT_SCALE
    download,     \* what yf.download returns for dates[current_day], per ticker
    pc,           \* where the current script run is: "sleep", "plot", "done"
    shown,        \* loop iterations of the walk rendered by the current run
    pressed,      \* the Enter button that reads True in the current run
    summary,      \* the totals the current run has written (lines 153-154)
    exception,    \* the exception that ended the current run, "none" if none
    lastOp,       \* history: the event behind the latest step
    before,       \* history: day index, running flag and position before that step
    log0          \* history: trade_data when Start Next Day was last clicked

vars == <<trade_data, dates, current_day, running, entered, ticker, entry_price,
          entry_time, data, TP_PCT, SL_PCT, download, pc, shown, pressed,
          summary, exception, lastOp, before, log0>>

----------------------------------------------------------------------------
(* Bounds of the model *)

\* len(st.session_state.dates); the program samples 50 dates.
NumDates == 2

\* Entries, and events taken while a record is being plotted, are cut off
\* once the log holds this many records.
MaxTrades == 2

----------------------------------------------------------------------------
(* Program constants *)

POSITION_SIZE == 2000000

\* The sliders step by 0.1 percent and are divided by 100: fractions are
\* multiples of 1/1000.
PCT_SCALE == 1000

\* round(pnl, 2): cents per currency unit.
CENTS == 100

\* between_time("09:30", "16:00"), in minutes after midnight.
SESSION_OPEN == 570

SESSION_CLOSE == 960

\* n of get_random_dates and the 50 of line 149, scaled to the model.
N_DATES == NumDates

SUMMARY_DAYS == NumDates

None == <<>>

Some(x) == <<x>>

Val(o) == o[1]

----------------------------------------------------------------------------
(* Inputs: slider positions, sampled dates, downloaded bars *)

\* min_value and max_value of the two sliders, in units of 1 / PCT_SCALE.
TP_MIN == 5
TP_MAX == 50
SL_MIN == 2
SL_MAX == 50

\* Values the operator tries to give the take-profit slider (default 1.5 %):
\* two positions of the widget, and 0 % and 100 %.
TP_VALUES == {0, 15, 20, PCT_SCALE}

\* Values the operator tries to give the stop-loss slider (default 0.5 %).
SL_VALUES == {0, 5, 10, PCT_SCALE}

\* Mutant: the widget has no min_value / max_value.
slider_Unbounded(min_value, max_value, tried) == tried

\* st.sidebar.slider: the values the widget can take among those tried.
slider(min_value, max_value, tried) ==
    {v \in tried : min_value <= v /\ v <= max_value}

Bar(t, o, h, l, c) == [Datetime |-> t, Open |-> o, High |-> h, Low |-> l, Close |-> c]

\* Downloads of one ticker for one date.  At the default sliders an entry at
\* 100 has its take-profit at 101.5 and its stop-loss at 99.5.
RawFlatWinLoss ==
    << Bar(570, 100, 100, 100, 100), Bar(571, 100, 102, 100, 101),
       Bar(572, 101, 101, 99, 99) >>

\* A pre-market row, which between_time drops, then two rows.
RawPreFlatLoss ==
    << Bar(569, 100, 100, 100, 100), Bar(570, 100, 100, 100, 100),
       Bar(571, 100, 100, 99, 99) >>

\* The first session row reaches both thresholds.
RawPreBothFlat ==
    << Bar(569, 100, 100, 100, 100), Bar(570, 100, 102, 99, 100),
       Bar(571, 100, 100, 100, 100), Bar(572, 100, 100, 100, 100) >>

\* No threshold is reached from an entry at 96.
RawQuiet == << Bar(570, 96, 97, 96, 96), Bar(571, 96, 97, 96, 97) >>

RawPreMarketOnly == << Bar(569, 100, 100, 100, 100) >>

RawEmpty == << >>

Pair(a, b) == [TQQQ |-> a, SQQQ |-> b]

\* The pairs (TQQQ, SQQQ) the provider may return for a date.
DownloadPool ==
    { Pair(RawFlatWinLoss, RawPreFlatLoss),
      Pair(RawQuiet, RawPreBothFlat),
      Pair(RawEmpty, RawQuiet),
      Pair(RawQuiet, RawEmpty),
      Pair(RawEmpty, RawEmpty),
      Pair(RawPreMarketOnly, RawQuiet),
      Pair(RawQuiet, RawPreMarketOnly) }

DatePool == 1 .. N_DATES

\* random.sample(dates, n): n distinct dates of the pool in some order.  Of
\* the orders the model draws the rotations of the pool.
get_random_dates(n) ==
    { [k \in 1 .. n |-> ((k + r) % Cardinality(DatePool)) + 1] : r \in 1 .. n }

----------------------------------------------------------------------------
(* get_intraday_data *)

between_time(bar) == bar.Datetime >= SESSION_OPEN /\ bar.Datetime <= SESSION_CLOSE

get_intraday_data(raw) ==
    IF raw = << >> THEN None ELSE Some(SelectSeq(raw, between_time))

----------------------------------------------------------------------------
(* Exit evaluation, lines 99-127 *)

TakeProfitPrice(entry, tp_pct) == entry * (PCT_SCALE + tp_pct)

StopLossPrice(entry, sl_pct) == entry * (PCT_SCALE - sl_pct)

\* Mutant: the take-profit price must be exceeded.
TakeProfitHit_Strict(row, tp) == row.High * PCT_SCALE > tp

TakeProfitHit(row, tp) == row.High * PCT_SCALE >= tp

\* Mutant: the stop-loss price must be undercut.
StopLossHit_Strict(row, sl) == row.Low * PCT_SCALE < sl

StopLossHit(row, sl) == row.Low * PCT_SCALE <= sl

\* Mutant: the stop-loss is tested before the take-profit.
ScanRow_StopLossFirst(row, tp, sl) ==
    IF StopLossHit(row, sl) THEN Some([result |-> "Loss", exit_price |-> sl])
    ELSE IF TakeProfitHit(row, tp) THEN Some([result |-> "Win", exit_price |-> tp])
    ELSE None

\* One iteration of the scan: the outcome the row decides, None if it decides none.
ScanRow(row, tp, sl) ==
    IF TakeProfitHit(row, tp) THEN Some([result |-> "Win", exit_price |-> tp])
    ELSE IF StopLossHit(row, sl) THEN Some([result |-> "Loss", exit_price |-> sl])
    ELSE None

RECURSIVE Scan(_, _, _, _)
Scan(rows, idx, tp, sl) ==
    IF idx > Len(rows) THEN None
    ELSE IF ScanRow(rows[idx], tp, sl) # None THEN ScanRow(rows[idx], tp, sl)
    ELSE Scan(rows, idx + 1, tp, sl)

\* Mutant: the exit is the close of the first row.
NoHit_FirstClose(rows) == [result |-> "No TP/SL Hit", exit_price |-> rows[1].Close * PCT_SCALE]

NoHit(rows) == [result |-> "No TP/SL Hit", exit_price |-> rows[Len(rows)].Close * PCT_SCALE]

Evaluate(rows, entry, tp_pct, sl_pct) ==
    LET hit == Scan(rows, 1, TakeProfitPrice(entry, tp_pct), StopLossPrice(entry, sl_pct))
    IN  IF hit # None THEN Val(hit) ELSE NoHit(rows)

\* round(a * b / d) to the nearest integer, ties to even, for d > 0; the
\* product is never formed, so that it stays within TLC's integers.
RoundDiv(a, b, d) ==
    LET whole == (a \div d) * b + (((a % d) * b) \div d)
        rest  == ((a % d) * b) % d
    IN  IF 2 * rest > d THEN whole + 1
        ELSE IF 2 * rest < d THEN whole
        ELSE IF whole % 2 = 0 THEN whole ELSE whole + 1

\* Mutant: the quotient is cut to whole currency units.
Pnl_WholeUnits(exit_price, entry) ==
    CENTS * RoundDiv(exit_price - entry * PCT_SCALE, POSITION_SIZE \div PCT_SCALE, entry)

\* round((exit_price - entry_price) * POSITION_SIZE / entry_price, 2), in cents;
\* exit_price comes multiplied by PCT_SCALE.
Pnl(exit_price, entry) ==
    RoundDiv(exit_price - entry * PCT_SCALE, (POSITION_SIZE \div PCT_SCALE) * CENTS, entry)

----------------------------------------------------------------------------
(* The script, as functions of the session S it runs on *)

\* The session the script reads: session state, slider values, run position.
Here ==
    [trade_data |-> trade_data, current_day |-> current_day, running |-> running,
     entered |-> entered, ticker |-> ticker, entry_price |-> entry_price,
     entry_time |-> entry_time, data |-> data, TP_PCT |-> TP_PCT, SL_PCT |-> SL_PCT,
     pc |-> pc, shown |-> shown, pressed |-> pressed, summary |-> summary,
     exception |-> exception]

\* An uncaught exception ends the run.
Raise(S, name) == [S EXCEPT !.exception = name, !.pc = "done", !.pressed = None]

\* st.session_state.current_day += 1
NextDay(d) == d + 1

\* Mutant: the mean is not turned into a percentage.
WinRate_Fraction(log) ==
    RoundDiv(Cardinality({k \in 1 .. Len(log) : log[k].Result = "Win"}), CENTS, Len(log))

\* round(mean * 100, 2) of the Win column, in hundredths of a percent.
WinRate(log) ==
    RoundDiv(Cardinality({k \in 1 .. Len(log) : log[k].Result = "Win"}), 100 * CENTS, Len(log))

RECURSIVE TotalPnl(_)
TotalPnl(log) == IF log = << >> THEN 0 ELSE log[1].PnL + TotalPnl(Tail(log))

\* Mutant: the Cumulative PnL column is written into the session's records.
Summary_InPlace(S) ==
    IF S.current_day >= SUMMARY_DAYS
    THEN IF S.trade_data = << >>
         THEN Raise(S, "KeyError")
         ELSE [S EXCEPT !.summary = Some([log |-> S.trade_data,
                                          total_pnl |-> TotalPnl(S.trade_data),
                                          win_rate |-> WinRate(S.trade_data)]),
                        !.trade_data = [k \in 1 .. Len(S.trade_data) |->
                            [S.trade_data[k] EXCEPT
                                !.PnL = TotalPnl(SubSeq(S.trade_data, 1, k))]],
                        !.pc = "done", !.pressed = None]
    ELSE [S EXCEPT !.pc = "done", !.pressed = None]

\* Lines 149-164, then the end of the run.  A frame built from an empty list
\* has no columns, so results_df['PnL ($)'] raises KeyError.
Summary(S) ==
    IF S.current_day >= SUMMARY_DAYS
    THEN IF S.trade_data = << >>
         THEN Raise(S, "KeyError")
         ELSE [S EXCEPT !.summary = Some([log |-> S.trade_data,
                                          total_pnl |-> TotalPnl(S.trade_data),
                                          win_rate |-> WinRate(S.trade_data)]),
                        !.pc = "done", !.pressed = None]
    ELSE [S EXCEPT !.pc = "done", !.pressed = None]

\* Mutant: the comparison lets the target itself through.
StartGuard_Inclusive(S) == S.current_day <= Len(dates)

\* Lines 53-60: the Start Next Day button read True.
StartGuard(S) == S.current_day < Len(dates)

\* Mutant: the click is ignored while a day is in progress.
StartNextDay_IdleOnly(S) ==
    IF StartGuard(S) /\ ~S.running
    THEN [S EXCEPT !.running = TRUE, !.entered = FALSE, !.ticker = "None",
                   !.entry_price = None, !.entry_time = None, !.data = None]
    ELSE S

\* Mutant: starting a day also empties the trade log.
StartNextDay_ClearsLog(S) ==
    IF StartGuard(S)
    THEN [S EXCEPT !.running = TRUE, !.entered = FALSE, !.ticker = "None",
                   !.entry_price = None, !.entry_time = None, !.data = None,
                   !.trade_data = << >>]
    ELSE S

StartNextDay(S) ==
    IF StartGuard(S)
    THEN [S EXCEPT !.running = TRUE, !.entered = FALSE, !.ticker = "None",
                   !.entry_price = None, !.entry_time = None, !.data = None]
    ELSE S

\* Lines 99-127: evaluate the entered trade and append its record; the run
\* is then in the st.write / st.pyplot calls of lines 129-142.
Record(S) ==
    LET out == Evaluate(Val(S.data), Val(S.entry_price), S.TP_PCT, S.SL_PCT)
    IN  [Date |-> dates[S.current_day + 1], Ticker |-> S.ticker,
         EntryTime |-> Val(S.entry_time), EntryPrice |-> Val(S.entry_price),
         ExitPrice |-> out.exit_price, Result |-> out.result,
         PnL |-> Pnl(out.exit_price, Val(S.entry_price))]

\* Lines 98-146 up to the first st.* call after the append.
AfterTrade(S) ==
    IF S.entered
    THEN IF S.current_day >= Len(dates)
         THEN Raise(S, "IndexError")
         ELSE [S EXCEPT !.trade_data = Append(S.trade_data, Record(S)), !.pc = "plot"]
    ELSE Summary(S)

\* Mutant: the day index is not advanced.
AdvanceDay_SameDay(S) ==
    Summary([S EXCEPT !.running = FALSE, !.entered = FALSE])

\* Mutant: running is not reset.
AdvanceDay_KeepsRunning(S) ==
    Summary([S EXCEPT !.current_day = NextDay(S.current_day), !.entered = FALSE])

\* Lines 144-146, then the summary block.
AdvanceDay(S) ==
    Summary([S EXCEPT !.current_day = NextDay(S.current_day), !.running = FALSE,
                      !.entered = FALSE])

\* Lines 80-92: the Enter button of ticker tk read True at row idx (1-based).
Enter(S, tk, rows, idx) ==
    [S EXCEPT !.ticker = tk, !.entry_price = Some(rows[idx].Open),
              !.entry_time = Some(rows[idx].Datetime),
              !.data = Some(SubSeq(rows, idx, Len(rows))), !.entered = TRUE]

\* Mutant: the Enter SQQQ handler reads the TQQQ frame.
Loop_TqqqFrame(S, i, tqqq_data, sqqq_data) ==
    IF i >= Len(tqqq_data) THEN AfterTrade(S)
    ELSE IF i >= Len(sqqq_data) THEN Raise(S, "KeyError")
    ELSE LET S1 == IF S.pressed = <<"t", i>> THEN Enter(S, "TQQQ", tqqq_data, i + 1) ELSE S
             S2 == IF S.pressed = <<"s", i>> THEN Enter(S1, "SQQQ", tqqq_data, i + 1) ELSE S1
         IN  [S2 EXCEPT !.shown = i + 1, !.pc = "sleep"]

\* Lines 74-95: loop iteration i (0-based) of the walk, up to its sleep.
Loop(S, i, tqqq_data, sqqq_data) ==
    IF i >= Len(tqqq_data) THEN AfterTrade(S)
    ELSE IF i >= Len(sqqq_data) THEN Raise(S, "KeyError")
    ELSE LET S1 == IF S.pressed = <<"t", i>> THEN Enter(S, "TQQQ", tqqq_data, i + 1) ELSE S
             S2 == IF S.pressed = <<"s", i>> THEN Enter(S1, "SQQQ", sqqq_data, i + 1) ELSE S1
         IN  [S2 EXCEPT !.shown = i + 1, !.pc = "sleep"]

\* Lines 68-71.
Skip(S) ==
    [S EXCEPT !.current_day = NextDay(S.current_day), !.running = FALSE]

\* Lines 63-95 and what follows them in the same run.
Simulation(S) ==
    IF S.running /\ ~S.entered
    THEN IF S.current_day >= Len(dates)
         THEN Raise(S, "IndexError")
         ELSE LET tqqq_data == get_intraday_data(download.TQQQ)
                  sqqq_data == get_intraday_data(download.SQQQ)
              IN  IF tqqq_data = None \/ sqqq_data = None
                  THEN AfterTrade(Skip(S))
                  ELSE Loop(S, 0, Val(tqqq_data), Val(sqqq_data))
    ELSE AfterTrade(S)

\* A run of the script from the top, up to the first place where time passes.
Rerun(S, start, button) ==
    LET S0 == [S EXCEPT !.pressed = button, !.shown = 0, !.summary = None,
                        !.exception = "none"]
    IN  Simulation(IF start THEN StartNextDay(S0) ELSE S0)

\* The sleep of line 93 is over: break if entered, else the next iteration.
Wake(S) ==
    IF S.entered THEN AfterTrade(S)
    ELSE Loop(S, S.shown, Val(get_intraday_data(download.TQQQ)),
              Val(get_intraday_data(download.SQQQ)))

----------------------------------------------------------------------------
(* Actions *)

\* The session after the step is S; a new date brings a new download.
Set(S) ==
    /\ trade_data' = S.trade_data
    /\ current_day' = S.current_day
    /\ running' = S.running
    /\ entered' = S.entered
    /\ ticker' = S.ticker
    /\ entry_price' = S.entry_price
    /\ entry_time' = S.entry_time
    /\ data' = S.data
    /\ TP_PCT' = S.TP_PCT
    /\ SL_PCT' = S.SL_PCT
    /\ pc' = S.pc
    /\ shown' = S.shown
    /\ pressed' = S.pressed
    /\ summary' = S.summary
    /\ exception' = S.exception
    /\ download' \in IF S.current_day = current_day THEN {download}
                     ELSE IF S.current_day < Len(dates) THEN DownloadPool
                     ELSE {Pair(RawEmpty, RawEmpty)}
    /\ before' = [current_day |-> current_day, running |-> running, pc |-> pc]
    /\ UNCHANGED dates

\* An event is taken when no run is in progress, or stops the run in progress
\* at its next st.* call: after the sleep of an iteration without entry, or
\* in the calls of lines 129-142.  An event during the sleep that follows an
\* entry is taken at line 129, that is in "plot".
Interruptible ==
    \/ pc = "done"
    \/ pc = "sleep" /\ ~entered
    \/ pc = "plot" /\ Len(trade_data) < MaxTrades

Init ==
    /\ trade_data = << >>
    /\ dates \in get_random_dates(N_DATES)
    /\ current_day = 0
    /\ running = FALSE
    /\ entered = FALSE
    /\ ticker = "None"
    /\ entry_price = None
    /\ entry_time = None
    /\ data = None
    /\ TP_PCT = 15
    /\ SL_PCT = 5
    /\ download \in DownloadPool
    /\ pc = "done"
    /\ shown = 0
    /\ pressed = None
    /\ summary = None
    /\ exception = "none"
    /\ lastOp = "init"
    /\ before = [current_day |-> 0, running |-> FALSE, pc |-> "done"]
    /\ log0 = << >>

\* The operator clicks Start Next Day.
ClickStart ==
    /\ Interruptible
    /\ Set(Rerun(Here, TRUE, None))
    /\ lastOp' = "start"
    /\ log0' = trade_data

\* The operator clicks Enter TQQQ ("t") or Enter SQQQ ("s") of a rendered row.
ClickEnter ==
    /\ Interruptible
    /\ Len(trade_data) < MaxTrades
    /\ \E b \in {"t", "s"}, i \in 0 .. shown - 1 : Set(Rerun(Here, FALSE, <<b, i>>))
    /\ lastOp' = "enter"
    /\ UNCHANGED log0

\* The operator moves a slider.
MoveSlider ==
    /\ Interruptible
    /\ \E tp \in slider(TP_MIN, TP_MAX, TP_VALUES), sl \in slider(SL_MIN, SL_MAX, SL_VALUES) :
          /\ (tp = TP_PCT) # (sl = SL_PCT)
          /\ Set(Rerun([Here EXCEPT !.TP_PCT = tp, !.SL_PCT = sl], FALSE, None))
    /\ lastOp' = "slider"
    /\ UNCHANGED log0

\* time.sleep(5) of line 93 returns with no event pending.
Sleep ==
    /\ pc = "sleep"
    /\ Set(Wake(Here))
    /\ lastOp' = "sleep"
    /\ UNCHANGED log0

\* Lines 129-142 return with no event pending; the run goes on to line 144.
Plot ==
    /\ pc = "plot"
    /\ Set(AdvanceDay(Here))
    /\ lastOp' = "plot"
    /\ UNCHANGED log0

Next == ClickStart \/ ClickEnter \/ MoveSlider \/ Sleep \/ Plot

Spec == Init /\ [][Next]_vars

----------------------------------------------------------------------------
(* An operator who lets every day run to its end *)

\* Start Next Day is clicked only when no run is in progress.
StartWhenIdle == pc = "done" /\ ClickStart

\* An Enter button is clicked only during the walk.
EnterDuringWalk == pc = "sleep" /\ ClickEnter

ProgressNext == StartWhenIdle \/ EnterDuringWalk \/ Sleep \/ Plot

\* time.sleep returns, the plot calls return, and the operator keeps clicking
\* Start Next Day whenever no run is in progress.
ProgressSpec ==
    /\ Init
    /\ [][ProgressNext]_vars
    /\ WF_vars(Sleep)
    /\ WF_vars(Plot)
    /\ WF_vars(StartWhenIdle)

----------------------------------------------------------------------------
(* Claims *)

Last(seq) == seq[Len(seq)]

\* The rows, thresholds and record of the evaluation the run has just made.
EvalRows == Val(data)

EvalTP == Val(entry_price) * (PCT_SCALE + TP_PCT)

EvalSL == Val(entry_price) * (PCT_SCALE - SL_PCT)

HighReaches(k) == EvalRows[k].High * PCT_SCALE >= EvalTP

LowReaches(k) == EvalRows[k].Low * PCT_SCALE <= EvalSL

\* C1 as stated: the log's length equals the day index and never exceeds the
\* day-count target.
C1_LogLengthIsDayIndex ==
    Len(trade_data) = current_day /\ Len(trade_data) <= N_DATES

\* C1, amended: the day index never exceeds the day-count target, and every
\* record of the log is for one of the dates started so far: one of the
\* first current_day dates, or the date of the day in progress.
C1_DayIndexBounded ==
    /\ current_day <= N_DATES
    /\ \A k \in 1 .. Len(trade_data) :
          \E j \in 1 .. N_DATES :
             /\ trade_data[k].Date = dates[j]
             /\ j <= current_day + (IF running THEN 1 ELSE 0)

C1_Witness ==
    /\ current_day = N_DATES
    /\ trade_data # << >>
    /\ Len(trade_data) < current_day

\* C2 as stated: a day requested when the bar sequence of either ticker is
\* empty or absent is skipped: log unchanged, day index plus one, no walk,
\* no entry, no day in progress.
MissingBars(raw) ==
    get_intraday_data(raw) = None \/ Val(get_intraday_data(raw)) = << >>

C2_SkipOnMissingBars ==
    [][ ( /\ lastOp' = "start"
          /\ current_day < N_DATES
          /\ MissingBars(download.TQQQ) \/ MissingBars(download.SQQQ) )
        => ( /\ trade_data' = trade_data
             /\ current_day' = current_day + 1
             /\ ~running' /\ ~entered'
             /\ shown' = 0 /\ pc' = "done" /\ exception' = "none" ) ]_vars

\* C2 for a download that came back with no rows (get_intraday_data returns
\* None): the day is skipped.
C2_SkipOnNone ==
    [][ ( /\ lastOp' = "start"
          /\ current_day < N_DATES
          /\ download.TQQQ = << >> \/ download.SQQQ = << >> )
        => ( /\ trade_data' = trade_data
             /\ current_day' = current_day + 1
             /\ ~running' /\ ~entered'
             /\ shown' = 0 /\ pc' = "done" ) ]_vars

\* C3: if row k of the evaluated rows is the first whose high reaches the
\* take-profit price and no earlier row reaches either threshold, the record
\* is a Win that exits at the take-profit price, whatever follows row k.
C3_FirstTakeProfitWins ==
    pc = "plot" =>
       \A k \in 1 .. Len(EvalRows) :
          ( /\ HighReaches(k)
            /\ \A j \in 1 .. k - 1 : ~HighReaches(j) /\ ~LowReaches(j) )
          => ( /\ Last(trade_data).Result = "Win"
               /\ Last(trade_data).ExitPrice = EvalTP )

C3_Witness ==
    /\ pc = "plot"
    /\ Len(EvalRows) = 3
    /\ ~HighReaches(1) /\ ~LowReaches(1)
    /\ HighReaches(2) /\ ~LowReaches(2)
    /\ LowReaches(3) /\ ~HighReaches(3)
    /\ Last(trade_data).Result = "Win"

\* C4: if row k is the first whose low reaches the stop-loss price and no
\* row up to and including k has a high that reaches the take-profit price,
\* the record is a Loss that exits at the stop-loss price.
C4_FirstStopLossLoses ==
    pc = "plot" =>
       \A k \in 1 .. Len(EvalRows) :
          ( /\ LowReaches(k)
            /\ \A j \in 1 .. k - 1 : ~LowReaches(j)
            /\ \A j \in 1 .. k : ~HighReaches(j) )
          => ( /\ Last(trade_data).Result = "Loss"
               /\ Last(trade_data).ExitPrice = EvalSL )

C4_Witness ==
    /\ pc = "plot"
    /\ Len(EvalRows) >= 2
    /\ ~HighReaches(1) /\ ~LowReaches(1)
    /\ LowReaches(2) /\ ~HighReaches(2)
    /\ Last(trade_data).Result = "Loss"

\* C5: if the first row to reach any threshold reaches both, the record is a
\* Win that exits at the take-profit price.
C5_TakeProfitBeforeStopLoss ==
    pc = "plot" =>
       \A k \in 1 .. Len(EvalRows) :
          ( /\ HighReaches(k) /\ LowReaches(k)
            /\ \A j \in 1 .. k - 1 : ~HighReaches(j) /\ ~LowReaches(j) )
          => ( /\ Last(trade_data).Result = "Win"
               /\ Last(trade_data).ExitPrice = EvalTP )

C5_Witness ==
    /\ pc = "plot"
    /\ HighReaches(1) /\ LowReaches(1)
    /\ Last(trade_data).Result = "Win"

\* C6: if no row reaches either threshold, the record carries the
\* no-threshold-hit outcome and exits at the close of the last row.
C6_NoHitExitsAtLastClose ==
    pc = "plot" =>
       ( (\A k \in 1 .. Len(EvalRows) : ~HighReaches(k) /\ ~LowReaches(k))
         => ( /\ Last(trade_data).Result = "No TP/SL Hit"
              /\ Last(trade_data).ExitPrice = Last(EvalRows).Close * PCT_SCALE ) )

C6_Witness ==
    /\ pc = "plot"
    /\ Len(EvalRows) >= 2
    /\ \A k \in 1 .. Len(EvalRows) : ~HighReaches(k) /\ ~LowReaches(k)
    /\ Last(EvalRows).Close # EvalRows[1].Close
    /\ Last(trade_data).Result = "No TP/SL Hit"

\* (exit - entry) * notional against PnL * entry, both in cents times ticks;
\* ExitPrice carries the factor PCT_SCALE, which is taken out of the notional.
PnlGap(r) ==
    r.PnL * r.EntryPrice
      - (r.ExitPrice - r.EntryPrice * PCT_SCALE) * ((POSITION_SIZE \div PCT_SCALE) * CENTS)

\* C7 as stated: every record's profit/loss equals
\* (exit price - entry price) * 2,000,000 / entry price.
C7_PnlExact ==
    \A k \in 1 .. Len(trade_data) :
       trade_data[k].EntryPrice > 0 /\ PnlGap(trade_data[k]) = 0

\* C7, amended: every record's profit/loss is that quotient rounded to two
\* decimal places: it is a whole number of cents within half a cent of it.
C7_PnlRoundedToCents ==
    \A k \in 1 .. Len(trade_data) :
       /\ trade_data[k].EntryPrice > 0
       /\ 2 * PnlGap(trade_data[k]) <= trade_data[k].EntryPrice
       /\ 2 * PnlGap(trade_data[k]) >= -trade_data[k].EntryPrice

C7_Witness ==
    \E k, m \in 1 .. Len(trade_data) :
       /\ PnlGap(trade_data[k]) # 0
       /\ trade_data[m].Result = "Loss"

\* C8: Start Next Day clicked when the day index has reached the target
\* starts no day and changes nothing: day index, flags, entry fields, log
\* and what the page shows stay as they were.
C8_StartAtTargetIsNoOp ==
    [][ (lastOp' = "start" /\ current_day >= N_DATES)
        => ( /\ UNCHANGED <<current_day, running, entered, ticker, entry_price,
                            entry_time, data, trade_data>>
             /\ ~running' /\ pc' = "done" /\ shown' = 0
             /\ UNCHANGED <<summary, exception>> ) ]_vars

C8_Witness ==
    /\ lastOp = "start"
    /\ before.current_day = N_DATES
    /\ trade_data # << >>

\* C9 as stated: Start Next Day clicked while a day is in progress is
\* reported as an invalid transition and changes nothing of that day.
C9_StartRejectedMidDay ==
    [][ (lastOp' = "start" /\ running)
        => ( /\ exception' = "InvalidTransition"
             /\ UNCHANGED <<current_day, running, entered, ticker, entry_price,
                            entry_time, data, trade_data, shown, pc>> ) ]_vars

\* C9, amended: Start Next Day clicked while a day is in progress is
\* accepted.  The day index and the log stay as they are, the entry fields
\* are cleared and the walk of the same date starts again from its first
\* row; nothing is reported about the click.
C9_StartRestartsDay ==
    [][ (lastOp' = "start" /\ running)
        => ( /\ UNCHANGED <<current_day, trade_data>>
             /\ running' /\ ~entered'
             /\ ticker' = "None" /\ entry_price' = None
             /\ entry_time' = None /\ data' = None
             /\ \/ pc' = "sleep" /\ shown' = 1 /\ exception' = "none"
                \/ pc' = "done" /\ shown' = 0 /\ exception' \in {"none", "KeyError"} ) ]_vars

C9_Witness ==
    /\ lastOp = "start"
    /\ before.running
    /\ before.pc = "plot"
    /\ pc = "sleep"

\* C10: when the walk of a day runs past its last row with no entry, the log
\* and the total PnL are what they were when the day was started.
WalkExhausted ==
    /\ lastOp = "sleep"
    /\ pc = "done"
    /\ exception = "none"
    /\ ~entered

C10_NoEntryNoRecord ==
    WalkExhausted => trade_data = log0 /\ TotalPnl(trade_data) = TotalPnl(log0)

C10_Witness ==
    /\ WalkExhausted
    /\ shown >= 2
    /\ trade_data # << >>

\* C11 as stated: when the walk of a day runs past its last row with no
\* entry, no day is in progress any more and the day index has advanced by
\* exactly 1, so that the next Start Next Day opens the following date.
C11_ExhaustedWalkAdvancesDay ==
    WalkExhausted => ~running /\ current_day = before.current_day + 1

\* The sum of the PnL column of the first k records.
RECURSIVE SumPnl(_, _)
SumPnl(log, k) == IF k = 0 THEN 0 ELSE SumPnl(log, k - 1) + log[k].PnL

Wins(log) == Cardinality({k \in 1 .. Len(log) : log[k].Result = "Win"})

\* |shown - n / d| <= 1/2: shown is n / d rounded to an integer.
IsRounded(shown_value, n, d) ==
    /\ 2 * (shown_value * d - n) <= d
    /\ 2 * (n - shown_value * d) <= d

C13_SummaryReadOnly ==
    [][ /\ summary' # None => trade_data' = trade_data
        /\ summary # None /\ summary' # None =>
               /\ summary' = summary
               /\ UNCHANGED <<current_day, running, entered, ticker, entry_price,
                              entry_time, data, dates>>
               /\ lastOp' # "slider" => UNCHANGED <<TP_PCT, SL_PCT>> ]_vars

C13_Witness ==
    /\ summary # None
    /\ lastOp \in {"start", "slider"}
    /\ before.current_day >= SUMMARY_DAYS
    /\ Len(trade_data) >= 2
    /\ trade_data[1].PnL # 0

IsPrefix(a, b) == Len(a) <= Len(b) /\ SubSeq(b, 1, Len(a)) = a

\* C15: records are immutable.  No step modifies, reorders or removes a
\* record of the trade log: the log before a step is a prefix of the log
\* after it, and the log at the latest Start click is a prefix of the log now.
C15_LogOnlyGrows ==
    [][IsPrefix(trade_data, trade_data') /\ IsPrefix(log0', trade_data')]_vars

C15_Witness ==
    /\ Len(trade_data) >= 2
    /\ Len(log0) = 1
    /\ lastOp = "slider"
    /\ summary # None

\* The session bars of the ticker entered, and the button that enters it.
EnteredBars == Val(get_intraday_data(download[ticker]))

EnteredButton == IF ticker = "TQQQ" THEN "t" ELSE "s"

\* The rows of the evaluation that reach a threshold.
Deciding == {k \in 1 .. Len(EvalRows) : HighReaches(k) \/ LowReaches(k)}

FirstDeciding == CHOOSE k \in Deciding : \A j \in Deciding : k <= j

\* C16: an entry made at walk cursor i for ticker X takes its price from the
\* open of X's bar i and its time from that bar's timestamp, and is evaluated
\* on X's bars from bar i (included) to the last: the record's outcome is the
\* one those bars decide, whatever the other ticker's bars are.
C16_EntryFromCursorOfChosenTicker ==
    entered =>
        /\ \E i \in 1 .. Len(EnteredBars) :
              /\ entry_price = Some(EnteredBars[i].Open)
              /\ entry_time = Some(EnteredBars[i].Datetime)
              /\ data = Some(SubSeq(EnteredBars, i, Len(EnteredBars)))
              /\ pc = "sleep" => i = shown /\ pressed = <<EnteredButton, i - 1>>
        /\ pc = "plot" =>
              /\ Last(trade_data).Ticker = ticker
              /\ Last(trade_data).EntryPrice = Val(entry_price)
              /\ Last(trade_data).EntryTime = Val(entry_time)
              /\ IF Deciding = {}
                 THEN /\ Last(trade_data).Result = "No TP/SL Hit"
                      /\ Last(trade_data).ExitPrice = Last(EvalRows).Close * PCT_SCALE
                 ELSE IF HighReaches(FirstDeciding)
                 THEN /\ Last(trade_data).Result = "Win"
                      /\ Last(trade_data).ExitPrice = EvalTP
                 ELSE /\ Last(trade_data).Result = "Loss"
                      /\ Last(trade_data).ExitPrice = EvalSL

\* An SQQQ entry after the first bar, decided by the bar of the entry itself.
C16_Witness ==
    /\ entered /\ pc = "plot"
    /\ ticker = "SQQQ"
    /\ Len(EvalRows) < Len(EnteredBars)
    /\ 1 \in Deciding
    /\ get_intraday_data(download.TQQQ) # get_intraday_data(download.SQQQ)

\* The positions of the log's records for date d.
RecordsOf(d) == {k \in 1 .. Len(trade_data) : trade_data[k].Date = d}

\* C17 as stated: an entry is evaluated at once and closes its day.  The log
\* holds a record for the date of the day index only while the run that made
\* the entry is showing its result (lines 129-142, on its way to lines
\* 144-146), and then exactly one: no second record and no second entry for
\* that date.
C17_EntryClosesDay ==
    current_day < N_DATES =>
        \/ RecordsOf(dates[current_day + 1]) = {}
        \/ /\ Cardinality(RecordsOf(dates[current_day + 1])) = 1
           /\ pc = "plot" /\ entered

\* The day index at which date d is simulated.
DayOf(d) == CHOOSE j \in 1 .. Len(dates) : dates[j] = d

\* C18 as stated: the log holds at most one record per date, in strictly
\* increasing order of the day index of the records' dates.
C18_OneRecordPerDate ==
    \A a, b \in 1 .. Len(trade_data) :
        a < b => DayOf(trade_data[a].Date) < DayOf(trade_data[b].Date)

\* C19 as stated: when both tickers have session bars, of equal or different
\* number, the walk reads at every cursor position a bar that both frames
\* have: no run of a day in progress ends in an out-of-range read.
C19_WalkStaysInRange ==
    ( /\ running
      /\ ~MissingBars(download.TQQQ)
      /\ ~MissingBars(download.SQQQ) )
    => exception # "KeyError"

\* The date of the day index is skipped (a download is empty) or can be
\* walked to its last bar (both frames have session bars, SQQQ at least as
\* many as TQQQ).
DayCanRunToItsEnd ==
    current_day < N_DATES =>
        \/ get_intraday_data(download.TQQQ) = None
        \/ get_intraday_data(download.SQQQ) = None
        \/ /\ ~MissingBars(download.TQQQ)
           /\ Len(Val(get_intraday_data(download.SQQQ)))
                  >= Len(Val(get_intraday_data(download.TQQQ)))

\* C20 as stated: when the operator keeps starting the next day and every
\* started day runs to its end (skipped, entered, or walked to its last bar
\* without entry), the day index eventually reaches the target.
C20_TargetReached ==
    []DayCanRunToItsEnd => <>(current_day = N_DATES)

====
